---- MODULE Spec2Model ----
(***************************************************************************)
(* Session-token lifecycle of the salon CRM: the refresh allow-list        *)
(* (src/server/refreshStore.ts), the token codec and session issuer        *)
(* (src/server/auth.ts), the /api/auth endpoints (src/server/routes.ts)    *)
(* and the client session manager (client/src/lib/auth.ts).                *)
(*                                                                         *)
(* Time: `now' counts clock ticks ("milliseconds"); MsPerSec ticks make    *)
(* one second.  The TTLs are scaled down so that expiry is reachable.      *)
(***************************************************************************)
EXTENDS Integers, FiniteSets, Sequences, TLC

\* ---------------------------------------------------------------- bounds
MaxJti == 3       \* refresh tokens minted in one run
MaxReq == 3       \* HTTP requests received by the server in one run
MaxInFlight == 2  \* requests the server holds at one time
MaxTime == 4      \* last clock tick
MaxStoreJti == 2   \* jtis used by the store harness
MaxStoreTime == 2  \* last clock tick of the store harness
MaxCalls == 2     \* authenticatedApiRequest() calls in one run
MaxHandles == 2   \* doRefresh() calls in one run
MaxClientTime == 2 \* last clock tick of the client specification
MaxTtl == 2       \* longest lifetime given to add() by the store harness
MaxTokenTime == 6 \* last clock tick of the token harness

\* ------------------------------------------------- program constants
MsPerSec == 2                      \* 1000 in the source, scaled
ACCESS_TOKEN_TTL_SECONDS == 1      \* 15 * 60 in the source, scaled
REFRESH_TOKEN_TTL_SECONDS == 2     \* 7 * 24 * 60 * 60 in the source, scaled

Null == -1
JWT_SECRET == "SESSION_SECRET"

VARIABLES
    mode,            \* "db" when DATABASE_URL is set, else "mem" (auth.ts:27)
    refreshSecretSet,\* TRUE when REFRESH_TOKEN_SECRET is configured
    now,             \* the clock, Date.now()
    nJti,            \* number of jtis drawn from randomUUID so far
    rows,            \* the refresh_tokens table of DbRefreshStore
    mem,             \* MemoryRefreshStore: [valid |-> Set, exp |-> Map]
    dbq,             \* DbRefreshStore writes issued and not yet committed
    revokeReturned,  \* jtis for which a revoke() promise has resolved
    reqs,            \* slot -> request being handled or awaiting pick-up
    resp,            \* the last response the server sent
    nReq,            \* number of requests received
    issued,          \* the refresh and access tokens the server has sent
    rotations,       \* the successful rotations: old jti, new jti
    hAdded,          \* store harness: jti -> expiresAt of the add() calls
    hRevoked,        \* store harness: added jtis given to revoke()
    obs,             \* store harness: the last isValid() of both stores,
                     \* with what had been added and revoked at the call
    tk,              \* token harness: a claim set, the token signed for
                     \* it and what verifying the token gave
    ls,              \* client localStorage: auth_token, auth_user, auth_exp
    jar,             \* the browser's refresh_token cookie
    refreshInFlight, \* the pending-refresh handle, 0 for null
    nH,              \* number of doRefresh() calls made
    handles,         \* the doRefresh() calls
    nCalls,          \* number of authenticatedApiRequest() calls made
    calls,           \* the authenticatedApiRequest() calls
    redirecting,     \* window.location.href was assigned, page not yet left
    loginCall        \* the auth.login() call in progress

serverVars == <<mode, refreshSecretSet, now, nJti, rows, mem, dbq,
                revokeReturned, reqs, resp, nReq, issued, rotations>>

Sec(t) == t \div MsPerSec

REFRESH_SECRET == IF refreshSecretSet THEN "REFRESH_TOKEN_SECRET" ELSE JWT_SECRET

\* ------------------------------------------------------------ users
\* MemStorage seeds one user, the administrator (storage.ts:79-90)
UserIds == {1}
UserTable ==
    [u \in UserIds |->
        [id |-> 1, email |-> "admin@salon.ru", role |-> "admin",
         password |-> "admin123"]]
Emails == {"admin@salon.ru", "nobody@salon.ru"}
Passwords == {"admin123", "letmein"}

getUserByEmail(email) ==
    IF \E u \in UserIds : UserTable[u].email = email
    THEN UserTable[CHOOSE u \in UserIds : UserTable[u].email = email]
    ELSE [id |-> 0, email |-> "", role |-> "", password |-> ""]

\* ------------------------------------------------------------ tokens
\* A token is its payload, its exp (seconds) and the key that signed it.
\* jti = 0 stands for a payload without jti, id = 0 for one without id.
NoToken == [id |-> 0, email |-> "", role |-> "", jti |-> 0, exp |-> 0,
            key |-> "none"]
GarbageToken == [id |-> 0, email |-> "", role |-> "", jti |-> 0, exp |-> 0,
                 key |-> "garbage"]

\* faulty variant: the role is left out of the signed payload
generateAccessToken_Mutant(user, t) ==
    [id |-> user.id, email |-> user.email, role |-> "", jti |-> 0,
     exp |-> Sec(t) + ACCESS_TOKEN_TTL_SECONDS, key |-> JWT_SECRET]

generateAccessToken(user, t) ==
    [id |-> user.id, email |-> user.email, role |-> user.role, jti |-> 0,
     exp |-> Sec(t) + ACCESS_TOKEN_TTL_SECONDS, key |-> JWT_SECRET]

\* faulty variant: the refresh token lives one second too long
SignRefresh_Mutant(user, jti, t) ==
    [id |-> user.id, email |-> user.email, role |-> user.role, jti |-> jti,
     exp |-> Sec(t) + REFRESH_TOKEN_TTL_SECONDS + 1, key |-> REFRESH_SECRET]

SignRefresh(user, jti, t) ==
    [id |-> user.id, email |-> user.email, role |-> user.role, jti |-> jti,
     exp |-> Sec(t) + REFRESH_TOKEN_TTL_SECONDS, key |-> REFRESH_SECRET]

\* jwt.verify: the signature must match and the token must not be expired
JwtVerify(token, secret, t) == token.key = secret /\ Sec(t) < token.exp

\* the payload jwt.verify returns for a token it accepts
JwtPayload(token) ==
    [id |-> token.id, email |-> token.email, role |-> token.role,
     jti |-> token.jti]

\* faulty variant: the expiry of the access token is not looked at
verifyAccessToken_Mutant(token, t) == token.key = JWT_SECRET

verifyAccessToken(token, t) == JwtVerify(token, JWT_SECRET, t)

\* faulty variant: the expiry of the refresh token is not looked at
verifyRefreshToken_Mutant(token, t) == token.key = REFRESH_SECRET

verifyRefreshToken(token, t) == JwtVerify(token, REFRESH_SECRET, t)

\* ------------------------------------------------- DbRefreshStore (SQL)
DbInsert(tbl, jti, userId, expiresAt) ==
    IF \E r \in tbl : r.jti = jti
    THEN tbl     \* primary-key violation: the insert is rejected
    ELSE tbl \cup {[jti |-> jti, userId |-> userId, expiresAt |-> expiresAt,
                    revokedAt |-> Null]}

\* faulty variant: the UPDATE matches no row
DbUpdateRevoked_Mutant(tbl, jti, at) ==
    {IF r.jti = 0 THEN [r EXCEPT !.revokedAt = at] ELSE r : r \in tbl}

DbUpdateRevoked(tbl, jti, at) ==
    {IF r.jti = jti THEN [r EXCEPT !.revokedAt = at] ELSE r : r \in tbl}

DbIsValid(tbl, jti, at) ==
    \E r \in tbl : r.jti = jti /\ r.revokedAt = Null /\ r.expiresAt > at

\* ------------------------------------------------- MemoryRefreshStore
MemEmpty == [valid |-> {}, exp |-> <<>>]

MemAdd(m, jti, expiresAt) ==
    [valid |-> m.valid \cup {jti},
     exp |-> [k \in DOMAIN m.exp \cup {jti} |->
                 IF k = jti THEN expiresAt ELSE m.exp[k]]]

MemRevoke(m, jti) ==
    [valid |-> m.valid \ {jti},
     exp |-> [k \in DOMAIN m.exp \ {jti} |-> m.exp[k]]]

\* faulty variant: the comparison with the expiry is inverted
MemIsValidResult_Mutant(m, jti, t) ==
    /\ jti \in m.valid
    /\ jti \in DOMAIN m.exp
    /\ m.exp[jti] # 0
    /\ t > m.exp[jti]

\* isValid's result and the map it leaves behind (an expired entry is deleted)
MemIsValidResult(m, jti, t) ==
    /\ jti \in m.valid
    /\ jti \in DOMAIN m.exp
    /\ m.exp[jti] # 0
    /\ ~(t > m.exp[jti])

MemIsValidAfter(m, jti, t) ==
    IF jti \in m.valid /\ jti \in DOMAIN m.exp /\ m.exp[jti] # 0
       /\ t > m.exp[jti]
    THEN MemRevoke(m, jti)
    ELSE m

\* ------------------------------------- the store as auth.ts calls it
\* S = [mem, dbq, ret]: the memory store, the writes in flight to the
\* database, and the revoke calls that have returned.
StoreAdd(S, jti, userId, expiresAt) ==
    IF mode = "db"
    THEN [S EXCEPT !.dbq = @ \cup {[op |-> "add", jti |-> jti,
                                    userId |-> userId,
                                    expiresAt |-> expiresAt, at |-> Null]}]
    ELSE [S EXCEPT !.mem = MemAdd(@, jti, expiresAt)]

StoreRevoke(S, jti, t) ==
    IF mode = "db"
    THEN [S EXCEPT !.dbq = @ \cup {[op |-> "revoke", jti |-> jti,
                                    userId |-> 0,
                                    expiresAt |-> Null, at |-> t]}]
    ELSE [S EXCEPT !.mem = MemRevoke(@, jti), !.ret = @ \cup {jti}]

revokeRefreshToken(S, jti, t) ==
    IF jti # 0 THEN StoreRevoke(S, jti, t) ELSE S

generateRefreshToken(S, user, t, jti) ==
    [token |-> SignRefresh(user, jti, t),
     jti |-> jti,
     store |-> StoreAdd(S, jti, user.id,
                        t + REFRESH_TOKEN_TTL_SECONDS * MsPerSec)]

rotateRefreshToken(S, oldJti, user, t, jti) ==
    generateRefreshToken(
        IF oldJti # 0 THEN revokeRefreshToken(S, oldJti, t) ELSE S,
        user, t, jti)

\* what isValid would answer if it were called now (no side effect)
StoreIsValid(tbl, m, jti, t) ==
    IF mode = "db" THEN DbIsValid(tbl, jti, t) ELSE MemIsValidResult(m, jti, t)

\* ------------------------------------------------------------ requests
\* A request being handled, and the response once it is answered.  owner
\* tells who receives the response: 0 a client outside the model, h > 0
\* the doRefresh() call h of the modelled page, -1 its auth.login() call.
NewReq(kind, cookie, owner) ==
    [kind |-> kind,         \* "login", "refresh" or "logout"
     cookie |-> cookie,     \* the refresh cookie the request carries
     bearer |-> NoToken,    \* the token of the Authorization header
     owner |-> owner,
     pc |-> "done",         \* "query", "resume" or "done"
     qAt |-> 0,             \* the `new Date()' of a pending isValid query
     valid |-> FALSE,       \* the answer of isRefreshJtiValid
     replay |-> FALSE,      \* arrived after a refresh with this token got 200
     revBefore |-> FALSE,   \* arrived after revoke(jti) of its token returned
     afterRevoke |-> FALSE, \* api: arrived after some revoke had returned
     wasValid |-> FALSE,    \* logout: the cookie's jti was valid on arrival
     status |-> 0,
     message |-> "",        \* the message of an error body
     setCookie |-> NoToken, \* the refresh token of Set-Cookie
     cleared |-> FALSE,     \* Set-Cookie with empty value and maxAge 0
     access |-> NoToken,    \* the access token of the body
     user |-> 0]            \* the user of the body (login)

NoResp == NewReq("none", NoToken, 0)

Store == [mem |-> mem, dbq |-> dbq, ret |-> revokeReturned]
SetStore(S) ==
    /\ mem' = S.mem
    /\ dbq' = S.dbq
    /\ revokeReturned' = S.ret

Slots == DOMAIN reqs
FreeSlots == (1..MaxInFlight) \ Slots
NextSlot == CHOOSE i \in FreeSlots : \A k \in FreeSlots : i <= k
Drop(i) == [k \in Slots \ {i} |-> reqs[k]]
Put(i, r) == [k \in Slots \cup {i} |-> IF k = i THEN r ELSE reqs[k]]

\* the response r of the request in slot i is sent: a client outside the
\* model has it at once, the modelled page picks it up from the slot
Answer(i, r) ==
    /\ resp' = r
    /\ reqs' = IF r.owner = 0 THEN Drop(i) ELSE Put(i, r)

\* what a client can put into the refresh cookie or the Authorization
\* header: nothing, garbage, or a token it was sent
Presentable == {NoToken, GarbageToken, resp.access} \cup issued

Rotated(jti) == \E x \in rotations : x.old = jti

\* the message of the error bodies, by endpoint and status
ErrorMessage(kind, status) ==
    IF kind = "login" /\ status = 401 THEN "Invalid credentials"
    ELSE IF kind = "refresh" /\ status = 401 THEN "No refresh token"
    ELSE IF kind = "refresh" /\ status = 403 THEN "Invalid refresh token"
    ELSE IF kind = "api" /\ status = 401 THEN "Access token required"
    ELSE IF kind = "api" /\ status = 403 THEN "Invalid token"
    ELSE ""

Respond(r, status) ==
    [r EXCEPT !.pc = "done", !.status = status,
              !.message = ErrorMessage(r.kind, status)]

\* faulty variant: the password is not compared
InvalidCredentials_Mutant(user, password) == user.id = 0

\* routes.ts:41: !user || !bcrypt.compareSync(password, user.password)
InvalidCredentials(user, password) ==
    user.id = 0 \/ password # user.password

\* POST /api/auth/login, routes.ts:36-62
Login(email, password, owner) ==
    /\ nReq < MaxReq
    /\ nReq' = nReq + 1
    /\ owner # 0 => FreeSlots # {}
    /\ LET user == getUserByEmail(email)
           r == NewReq("login", NoToken, owner)
           i == IF owner = 0 THEN 0 ELSE NextSlot
       IN  IF InvalidCredentials(user, password)
           THEN /\ Answer(i, Respond(r, 401))
                /\ UNCHANGED <<nJti, mem, dbq, revokeReturned, issued>>
           ELSE /\ nJti < MaxJti
                /\ LET g == generateRefreshToken(Store, user, now, nJti + 1)
                       a == generateAccessToken(user, now)
                   IN  /\ Answer(i, [Respond(r, 200) EXCEPT
                                        !.setCookie = g.token,
                                        !.access = a,
                                        !.user = user.id])
                       /\ SetStore(g.store)
                       /\ issued' = issued \cup {g.token, a}
                /\ nJti' = nJti + 1
    /\ UNCHANGED <<mode, refreshSecretSet, now, rows, rotations>>

\* routes.ts:74-79: rotate, set the cookie, answer 200
RefreshRotate(i, r) ==
    LET payload == r.cookie
        g == rotateRefreshToken(Store, payload.jti, payload, now, nJti + 1)
        a == generateAccessToken(payload, now)
    IN  /\ nJti < MaxJti
        /\ Answer(i, [Respond(r, 200) EXCEPT !.setCookie = g.token,
                                             !.access = a])
        /\ SetStore(g.store)
        /\ issued' = issued \cup {g.token, a}
        /\ rotations' = rotations \cup
              {[old |-> payload.jti, new |-> nJti + 1, replay |-> r.replay]}
        /\ nJti' = nJti + 1

\* POST /api/auth/refresh, routes.ts:64-83, up to the first await that
\* leaves the process (the SELECT of DbRefreshStore.isValid); with the
\* memory store the handler runs to its response without interruption
RefreshBegin(cookie, owner) ==
    /\ nReq < MaxReq
    /\ nReq' = nReq + 1
    /\ owner # 0 => FreeSlots # {}
    /\ LET r == [NewReq("refresh", cookie, owner) EXCEPT
                    !.replay = Rotated(cookie.jti) /\ cookie.jti # 0,
                    !.revBefore = cookie.jti \in revokeReturned]
           i == IF owner = 0 THEN 0 ELSE NextSlot
       IN  IF cookie = NoToken
           THEN /\ Answer(i, Respond(r, 401))
                /\ UNCHANGED <<nJti, mem, dbq, revokeReturned, issued,
                               rotations>>
           ELSE IF \/ ~verifyRefreshToken(cookie, now)
                   \/ cookie.id = 0
                   \/ cookie.jti = 0
           THEN /\ Answer(i, Respond(r, 403))
                /\ UNCHANGED <<nJti, mem, dbq, revokeReturned, issued,
                               rotations>>
           ELSE IF mode = "db"
           THEN /\ FreeSlots # {}
                /\ reqs' = Put(NextSlot, [r EXCEPT !.pc = "query",
                                                   !.qAt = now])
                /\ UNCHANGED <<nJti, mem, dbq, revokeReturned, issued,
                               rotations, resp>>
           ELSE IF ~MemIsValidResult(mem, cookie.jti, now)
           THEN /\ Answer(i, Respond(r, 403))
                /\ mem' = MemIsValidAfter(mem, cookie.jti, now)
                /\ UNCHANGED <<nJti, dbq, revokeReturned, issued, rotations>>
           ELSE RefreshRotate(i, [r EXCEPT !.valid = TRUE])
    /\ UNCHANGED <<mode, refreshSecretSet, now, rows>>

\* the database evaluates the SELECT of DbRefreshStore.isValid
DbSelect(i) ==
    /\ i \in Slots
    /\ reqs[i].pc = "query"
    /\ reqs' = [reqs EXCEPT ![i].pc = "resume",
                            ![i].valid = DbIsValid(rows, reqs[i].cookie.jti,
                                                   reqs[i].qAt)]
    /\ UNCHANGED <<mode, refreshSecretSet, now, nJti, rows, mem, dbq,
                   revokeReturned, resp, nReq, issued, rotations>>

\* the refresh handler continues after `await isRefreshJtiValid'
RefreshResume(i) ==
    /\ i \in Slots
    /\ reqs[i].pc = "resume"
    /\ IF ~reqs[i].valid
       THEN /\ Answer(i, Respond(reqs[i], 403))
            /\ UNCHANGED <<nJti, mem, dbq, revokeReturned, issued, rotations>>
       ELSE RefreshRotate(i, reqs[i])
    /\ UNCHANGED <<mode, refreshSecretSet, now, rows, nReq>>

\* faulty variant: the exception of verifyRefreshToken is not caught
Logout_Mutant(cookie) ==
    /\ nReq < MaxReq
    /\ nReq' = nReq + 1
    /\ LET r == NewReq("logout", cookie, 0)
       IN  IF cookie # NoToken /\ ~verifyRefreshToken(cookie, now)
           THEN Answer(0, Respond(r, 500))
           ELSE Answer(0, [Respond(r, 204) EXCEPT !.cleared = TRUE])
    /\ UNCHANGED <<mode, refreshSecretSet, now, nJti, rows, mem, dbq,
                   revokeReturned, issued, rotations>>

\* POST /api/auth/logout, routes.ts:85-97: the token is verified, the
\* branch that holds the jti is empty, the cookie is cleared
Logout(cookie) ==
    /\ nReq < MaxReq
    /\ nReq' = nReq + 1
    /\ LET ok == /\ cookie # NoToken
                 /\ verifyRefreshToken(cookie, now)
                 /\ cookie.jti # 0
                 /\ StoreIsValid(rows, mem, cookie.jti, now)
           r == [NewReq("logout", cookie, 0) EXCEPT !.wasValid = ok]
       IN  Answer(0, [Respond(r, 204) EXCEPT !.cleared = TRUE])
    /\ UNCHANGED <<mode, refreshSecretSet, now, nJti, rows, mem, dbq,
                   revokeReturned, issued, rotations>>

\* faulty variant: the allow-list is asked for a live session of the user
authenticateAccess_Mutant(token, t) ==
    IF token = NoToken THEN 401
    ELSE IF ~verifyAccessToken(token, t) THEN 403
    ELSE IF mode = "db" /\ ~\E r \in rows : r.userId = token.id
                                            /\ r.revokedAt = Null THEN 403
    ELSE IF mode = "mem" /\ mem.valid = {} THEN 403
    ELSE 200

\* authenticateAccess, auth.ts:91-102, in front of a protected handler
authenticateAccess(token, t) ==
    IF token = NoToken THEN 401
    ELSE IF ~verifyAccessToken(token, t) THEN 403
    ELSE 200

\* a protected endpoint, e.g. GET /api/auth/me (routes.ts:99-110): the
\* handler runs for req.user when authenticateAccess calls next()
Protected(token) ==
    /\ nReq < MaxReq
    /\ nReq' = nReq + 1
    /\ LET status == authenticateAccess(token, now)
           r == [NewReq("api", NoToken, 0) EXCEPT
                    !.bearer = token,
                    !.afterRevoke = revokeReturned # {}]
       IN  Answer(0, [Respond(r, status) EXCEPT
                         !.user = IF status = 200 THEN token.id ELSE 0])
    /\ UNCHANGED <<mode, refreshSecretSet, now, nJti, rows, mem, dbq,
                   revokeReturned, issued, rotations>>

\* a write of DbRefreshStore reaches the table and its promise resolves
DbCommit(q) ==
    /\ q \in dbq
    /\ dbq' = dbq \ {q}
    /\ IF q.op = "add"
       THEN /\ rows' = DbInsert(rows, q.jti, q.userId, q.expiresAt)
            /\ UNCHANGED revokeReturned
       ELSE /\ rows' = DbUpdateRevoked(rows, q.jti, q.at)
            /\ revokeReturned' = revokeReturned \cup {q.jti}
    /\ UNCHANGED <<mode, refreshSecretSet, now, nJti, mem, reqs, resp,
                   nReq, issued, rotations>>

Tick ==
    /\ now < MaxTime
    /\ now' = now + 1
    /\ UNCHANGED <<mode, refreshSecretSet, nJti, rows, mem, dbq,
                   revokeReturned, reqs, resp, nReq, issued, rotations>>

harnessVars == <<hAdded, hRevoked, obs, tk>>
clientVars == <<ls, jar, refreshInFlight, nH, handles, nCalls, calls,
                redirecting, loginCall>>
otherVars == <<harnessVars, clientVars>>

NoLs == [token |-> NoToken, user |-> 0, exp |-> 0]
NoLogin == [pc |-> "idle", email |-> "", password |-> "", sreq |-> 0]

ClientIdle ==
    /\ ls = NoLs
    /\ jar = NoToken
    /\ refreshInFlight = 0
    /\ nH = 0
    /\ handles = <<>>
    /\ nCalls = 0
    /\ calls = <<>>
    /\ redirecting = FALSE
    /\ loginCall = NoLogin

NoObs == [jti |-> 0, at |-> 0, db |-> FALSE, mem |-> FALSE,
          added |-> FALSE, revoked |-> FALSE, exp |-> 0]

StoreHarnessIdle ==
    /\ hAdded = <<>>
    /\ hRevoked = {}
    /\ obs = NoObs

NoPayload == [id |-> 0, email |-> "", role |-> "", jti |-> 0]
NoTk == [user |-> [id |-> 0, email |-> "", role |-> ""],
         stored |-> [id |-> 0, email |-> "", role |-> ""],
                              \* the user's row in storage as it is now
         kind |-> "none",     \* "access" or "refresh" once signed
         token |-> NoToken,
         jti |-> 0,           \* the jti generateRefreshToken returned
         at |-> 0,            \* Date.now() at signing
         checked |-> FALSE,   \* verify was called
         checkedAt |-> 0,
         ok |-> FALSE,        \* verify returned, did not throw
         payload |-> NoPayload,
         sentAt |-> Null]     \* Date.now() when the token was last sent
                              \* to the refresh endpoint

HarnessIdle ==
    /\ StoreHarnessIdle
    /\ tk = NoTk

ServerInit ==
    /\ mode \in {"db", "mem"}
    /\ refreshSecretSet \in BOOLEAN
    /\ now = 0
    /\ nJti = 0
    /\ rows = {}
    /\ mem = MemEmpty
    /\ dbq = {}
    /\ revokeReturned = {}
    /\ reqs = <<>>
    /\ resp = NoResp
    /\ issued = {}
    /\ rotations = {}
    /\ nReq = 0

Init == ServerInit /\ HarnessIdle /\ ClientIdle

LoginStep ==
    /\ \E e \in Emails, p \in Passwords : Login(e, p, 0)
    /\ UNCHANGED otherVars
RefreshBeginStep ==
    /\ \E c \in Presentable : RefreshBegin(c, 0)
    /\ UNCHANGED otherVars
DbSelectStep ==
    /\ \E i \in Slots : DbSelect(i)
    /\ UNCHANGED otherVars
RefreshResumeStep ==
    /\ \E i \in Slots : RefreshResume(i)
    /\ UNCHANGED otherVars
LogoutStep ==
    /\ \E c \in Presentable : Logout(c)
    /\ UNCHANGED otherVars
ProtectedStep ==
    /\ \E tok \in Presentable : Protected(tok)
    /\ UNCHANGED otherVars
DbCommitStep ==
    /\ \E q \in dbq : DbCommit(q)
    /\ UNCHANGED otherVars
TickStep ==
    /\ Tick
    /\ UNCHANGED otherVars

Next ==
    \/ LoginStep
    \/ RefreshBeginStep
    \/ DbSelectStep
    \/ RefreshResumeStep
    \/ LogoutStep
    \/ ProtectedStep
    \/ DbCommitStep
    \/ TickStep

vars == <<serverVars, harnessVars, clientVars>>
Spec == Init /\ [][Next]_vars

\* ------------------------------------------------------- store harness
\* Both stores receive the same awaited calls under the same clock.
Jtis == 1..MaxStoreJti

\* a jti is added when new or again after it was revoked: the table
\* rejects the duplicate key, the map overwrites its entry
StAdd(j, ttl) ==
    /\ j \notin DOMAIN hAdded \/ j \in hRevoked
    /\ rows' = DbInsert(rows, j, 1, now + ttl)
    /\ mem' = MemAdd(mem, j, now + ttl)
    /\ hAdded' = (j :> now + ttl) @@ hAdded
    /\ hRevoked' = hRevoked \ {j}
    /\ UNCHANGED <<obs, now>>

StRevoke(j) ==
    /\ rows' = DbUpdateRevoked(rows, j, now)
    /\ mem' = MemRevoke(mem, j)
    /\ hRevoked' = IF j \in DOMAIN hAdded THEN hRevoked \cup {j} ELSE hRevoked
    /\ UNCHANGED <<hAdded, obs, now>>

StIsValid(j) ==
    /\ obs' = [jti |-> j, at |-> now,
               db |-> DbIsValid(rows, j, now),
               mem |-> MemIsValidResult(mem, j, now),
               added |-> j \in DOMAIN hAdded,
               revoked |-> j \in hRevoked,
               exp |-> IF j \in DOMAIN hAdded THEN hAdded[j] ELSE 0]
    /\ mem' = MemIsValidAfter(mem, j, now)
    /\ UNCHANGED <<rows, hAdded, hRevoked, now>>

StTick ==
    /\ now < MaxStoreTime
    /\ now' = now + 1
    /\ UNCHANGED <<rows, mem, hAdded, hRevoked, obs>>

storeFrame == <<mode, refreshSecretSet, nJti, dbq, revokeReturned, reqs,
                resp, nReq, issued, rotations, tk, clientVars>>

StAddStep ==
    /\ \E j \in Jtis, ttl \in 1..MaxTtl : StAdd(j, ttl)
    /\ UNCHANGED storeFrame
StRevokeStep ==
    /\ \E j \in Jtis : StRevoke(j)
    /\ UNCHANGED storeFrame
StIsValidStep ==
    /\ \E j \in Jtis : StIsValid(j)
    /\ UNCHANGED storeFrame
StTickStep ==
    /\ StTick
    /\ UNCHANGED storeFrame

InitStore ==
    /\ ServerInit
    /\ mode = "db"
    /\ refreshSecretSet = FALSE
    /\ HarnessIdle
    /\ ClientIdle

NextStore ==
    \/ StAddStep
    \/ StRevokeStep
    \/ StIsValidStep
    \/ StTickStep

SpecStore == InitStore /\ [][NextStore]_vars

\* ------------------------------------------------------- token harness
\* generateAccessToken or generateRefreshToken signs a token for an
\* identity claim set; the token is verified, and given to the refresh
\* endpoint, while the clock runs past its lifetime.
IdentityIds == {1, 2}
Roles == {"admin", "master"}
ClaimSets == [id : IdentityIds, email : Emails, role : Roles]

TkGenerateAccess ==
    /\ tk.kind = "none"
    /\ LET a == generateAccessToken(tk.user, now)
       IN  /\ tk' = [tk EXCEPT !.kind = "access", !.token = a, !.at = now]
           /\ issued' = issued \cup {a}
    /\ UNCHANGED <<mode, refreshSecretSet, now, nJti, rows, mem, dbq,
                   revokeReturned, reqs, resp, nReq, rotations>>

TkGenerateRefresh ==
    /\ tk.kind = "none"
    /\ nJti < MaxJti
    /\ LET g == generateRefreshToken(Store, tk.user, now, nJti + 1)
       IN  /\ tk' = [tk EXCEPT !.kind = "refresh", !.token = g.token,
                               !.jti = g.jti, !.at = now]
           /\ SetStore(g.store)
           /\ issued' = issued \cup {g.token}
    /\ nJti' = nJti + 1
    /\ UNCHANGED <<mode, refreshSecretSet, now, rows, reqs, resp, nReq,
                   rotations>>

TkVerify ==
    /\ tk.kind # "none"
    /\ LET ok == IF tk.kind = "access"
                 THEN verifyAccessToken(tk.token, now)
                 ELSE verifyRefreshToken(tk.token, now)
       IN  tk' = [tk EXCEPT !.checked = TRUE, !.checkedAt = now, !.ok = ok,
                            !.payload = IF ok THEN JwtPayload(tk.token)
                                        ELSE NoPayload]
    /\ UNCHANGED serverVars

TkTick ==
    /\ now < MaxTokenTime
    /\ now' = now + 1
    /\ UNCHANGED <<mode, refreshSecretSet, nJti, rows, mem, dbq,
                   revokeReturned, reqs, resp, nReq, issued, rotations, tk>>

tokenFrame == <<hAdded, hRevoked, obs, clientVars>>

TkGenerateAccessStep == TkGenerateAccess /\ UNCHANGED tokenFrame
TkGenerateRefreshStep == TkGenerateRefresh /\ UNCHANGED tokenFrame
TkVerifyStep == TkVerify /\ UNCHANGED tokenFrame
TkTickStep == TkTick /\ UNCHANGED tokenFrame

\* the row of the user in the users table gets another email or role
\* after the token was signed for the user
TkStoredUserChange ==
    /\ tk.kind = "refresh"
    /\ \E e \in Emails, r \in Roles :
          /\ [tk.stored EXCEPT !.email = e, !.role = r] # tk.stored
          /\ tk' = [tk EXCEPT !.stored.email = e, !.stored.role = r]
    /\ UNCHANGED <<serverVars, tokenFrame>>

\* the signed refresh token is sent to POST /api/auth/refresh
TkRefreshStep ==
    /\ tk.kind = "refresh"
    /\ RefreshBegin(tk.token, 0)
    /\ tk' = [tk EXCEPT !.sentAt = now]
    /\ UNCHANGED tokenFrame

InitToken ==
    /\ ServerInit
    /\ mode = "mem"
    /\ StoreHarnessIdle
    /\ ClientIdle
    /\ tk \in {[NoTk EXCEPT !.user = c, !.stored = c] : c \in ClaimSets}

NextToken ==
    \/ TkGenerateAccessStep
    \/ TkGenerateRefreshStep
    \/ TkVerifyStep
    \/ TkTickStep
    \/ TkStoredUserChange
    \/ TkRefreshStep

SpecToken == InitToken /\ [][NextToken]_vars

\* ------------------------------------------- sessions past their expiry
\* The server without DATABASE_URL handles logins, refreshes and logouts
\* one at a time while the clock runs past the lifetime of the refresh
\* tokens.
InitMem ==
    /\ Init
    /\ mode = "mem"

NextMem ==
    \/ LoginStep
    \/ RefreshBeginStep
    \/ LogoutStep
    \/ TkTickStep

SpecMem == InitMem /\ [][NextMem]_vars

\* ------------------------------------------- client session manager
\* client/src/lib/auth.ts together with the server it talks to.  A
\* continuation of the page runs to its next await without interruption;
\* a settled promise resumes all its waiters in the same turn.
TimerMinSeconds == 0   \* refreshIfNeeded(45) in App.tsx, scaled to the TTL

Client == [ls |-> ls, jar |-> jar, rif |-> refreshInFlight, nH |-> nH,
           handles |-> handles, redirecting |-> redirecting]

\* doRefresh(): the fetch is sent with the cookie the jar holds
NewHandle(cookie) ==
    [st |-> "sent",       \* "sent", "server", "ok", "fail" or "aborted"
     cookie |-> cookie,   \* the cookie of the fetch in flight
     sreq |-> 0,          \* the server slot that handles it
     token |-> NoToken]   \* the token the promise resolved with

\* faulty variant: the pending handle is not consulted
EnsureRefresh_Mutant(C) ==
    [C EXCEPT !.nH = @ + 1,
              !.handles = @ @@ (C.nH + 1 :> NewHandle(C.jar)),
              !.rif = C.nH + 1]

\* if (!refreshInFlight) refreshInFlight = doRefresh().finally(...)
EnsureRefresh(C) ==
    IF C.rif = 0
    THEN [C EXCEPT !.nH = @ + 1,
                   !.handles = @ @@ (C.nH + 1 :> NewHandle(C.jar)),
                   !.rif = C.nH + 1]
    ELSE C

refreshNow(C) == EnsureRefresh(C)

getSecondsUntilExpiry(C, t) ==
    IF C.ls.exp = 0 THEN Null ELSE C.ls.exp - Sec(t)

\* faulty variant: the margin is compared with < instead of <=
refreshIfNeeded_Mutant(C, minSeconds, t) ==
    IF C.ls.exp = 0 \/ getSecondsUntilExpiry(C, t) < minSeconds
    THEN refreshNow(C)
    ELSE C

refreshIfNeeded(C, minSeconds, t) ==
    IF C.ls.exp = 0 \/ getSecondsUntilExpiry(C, t) <= minSeconds
    THEN refreshNow(C)
    ELSE C

getToken(C) == C.ls.token

isAuthenticated(C) == getToken(C) # NoToken

\* faulty variant: the expiry epoch is left in localStorage
logout_Mutant(C) ==
    [C EXCEPT !.ls.token = NoToken, !.ls.user = 0, !.redirecting = TRUE]

\* auth.logout()
logout(C) == [C EXCEPT !.ls = NoLs, !.redirecting = TRUE]

SetClient(C) ==
    /\ ls' = C.ls
    /\ jar' = C.jar
    /\ refreshInFlight' = C.rif
    /\ nH' = C.nH
    /\ handles' = C.handles
    /\ redirecting' = C.redirecting

CallIds == 1..nCalls
HandleIds == 1..nH

\* authenticatedApiRequest: the first performRequest(auth.getToken())
CallStart ==
    /\ nCalls < MaxCalls
    /\ ls.token # NoToken /\ ~redirecting  \* a page behind ProtectedRoute
    /\ calls' = calls @@ (nCalls + 1 :>
          [pc |-> "fetch1",  \* fetch1, await, fetch2, done
           tok |-> ls.token, \* the bearer token of the fetch in flight
           h |-> 0,          \* the handle it awaited
           rres |-> "",      \* how the awaited handle settled: ok, fail
           got |-> NoToken,  \* the token the awaited handle resolved with
           outcome |-> "",   \* "ok" (returned) or "error" (thrown)
           with |-> {c \in CallIds : /\ calls[c].pc = "fetch1"
                                     /\ calls[c].tok = ls.token}])
    /\ nCalls' = nCalls + 1
    /\ UNCHANGED <<ls, jar, refreshInFlight, nH, handles, redirecting,
                   loginCall>>
    /\ UNCHANGED <<serverVars, harnessVars>>

\* faulty variant: a refused retry asks for a refresh again
CallDeliver_Mutant(c) ==
    /\ c \in CallIds
    /\ calls[c].pc \in {"fetch1", "fetch2"}
    /\ LET status == authenticateAccess(calls[c].tok, now)
       IN  IF status \in {401, 403}
           THEN LET C == EnsureRefresh(Client)
                IN  /\ C.nH <= MaxHandles
                    /\ SetClient(C)
                    /\ calls' = [calls EXCEPT ![c].pc = "await",
                                              ![c].tok = NoToken,
                                              ![c].h = C.rif]
           ELSE /\ calls' = [calls EXCEPT
                      ![c].pc = "done",
                      ![c].tok = NoToken,
                      ![c].outcome = "ok"]
                /\ UNCHANGED <<ls, jar, refreshInFlight, nH, handles,
                               redirecting>>
    /\ UNCHANGED <<nCalls, loginCall>>
    /\ UNCHANGED <<serverVars, harnessVars>>

\* the server answers a performRequest and the page receives the response
CallDeliver(c) ==
    /\ c \in CallIds
    /\ calls[c].pc \in {"fetch1", "fetch2"}
    /\ LET status == authenticateAccess(calls[c].tok, now)
       IN  IF calls[c].pc = "fetch1" /\ status \in {401, 403}
           THEN LET C == EnsureRefresh(Client)
                IN  /\ C.nH <= MaxHandles
                    /\ SetClient(C)
                    /\ calls' = [calls EXCEPT ![c].pc = "await",
                                              ![c].tok = NoToken,
                                              ![c].h = C.rif]
           ELSE /\ calls' = [calls EXCEPT
                      ![c].pc = "done",
                      ![c].tok = NoToken,
                      ![c].outcome = IF status = 200 THEN "ok" ELSE "error"]
                /\ UNCHANGED <<ls, jar, refreshInFlight, nH, handles,
                               redirecting>>
    /\ UNCHANGED <<nCalls, loginCall>>
    /\ UNCHANGED <<serverVars, harnessVars>>

\* the interval callback of App.tsx: auth.refreshIfNeeded(45).catch(...)
TimerFire ==
    /\ LET C == refreshIfNeeded(Client, TimerMinSeconds, now)
       IN  /\ C.nH <= MaxHandles
           /\ SetClient(C)
    /\ UNCHANGED <<nCalls, calls, loginCall>>
    /\ UNCHANGED <<serverVars, harnessVars>>

\* the refresh request reaches the server
RefreshArrive(h) ==
    /\ h \in HandleIds
    /\ handles[h].st = "sent"
    /\ RefreshBegin(handles[h].cookie, h)
    /\ handles' = [handles EXCEPT ![h].st = "server", ![h].sreq = NextSlot]
    /\ UNCHANGED <<ls, jar, refreshInFlight, nH, nCalls, calls, redirecting,
                   loginCall>>
    /\ UNCHANGED harnessVars

\* faulty variant: the callback clears the handle only after a success
finallyCallback_Mutant(ok) == IF ok THEN 0 ELSE refreshInFlight

\* .finally(() => { refreshInFlight = null; }): the new value of the handle
finallyCallback(ok) == 0

\* the refresh response reaches the page: doRefresh settles, the finally
\* callback clears the handle, every waiter resumes
RefreshSettle(h) ==
    /\ h \in HandleIds
    /\ handles[h].st = "server"
    /\ reqs[handles[h].sreq].pc = "done"
    /\ reqs' = Drop(handles[h].sreq)
    /\ LET r == reqs[handles[h].sreq]
           ok == r.status = 200
           waiters == {c \in CallIds : calls[c].pc = "await" /\ calls[c].h = h}
       IN  /\ jar' = IF r.setCookie # NoToken THEN r.setCookie ELSE jar
           /\ handles' = [handles EXCEPT
                 ![h].st = IF ok THEN "ok" ELSE "fail",
                 ![h].cookie = NoToken,
                 ![h].sreq = 0,
                 ![h].token = r.access]
           /\ refreshInFlight' = finallyCallback(ok)
           /\ IF ok
              THEN /\ ls' = [ls EXCEPT
                         !.token = r.access,
                         !.exp = Sec(now) + ACCESS_TOKEN_TTL_SECONDS]
                   /\ UNCHANGED redirecting
                   /\ calls' = [c \in CallIds |->
                         IF c \in waiters
                         THEN [calls[c] EXCEPT !.pc = "fetch2",
                                               !.tok = r.access,
                                               !.rres = "ok",
                                               !.got = r.access]
                         ELSE calls[c]]
              ELSE /\ ls' = IF waiters # {} THEN NoLs ELSE ls
                   /\ redirecting' = (redirecting \/ waiters # {})
                   /\ calls' = [c \in CallIds |->
                         IF c \in waiters
                         THEN [calls[c] EXCEPT !.pc = "done",
                                               !.rres = "fail",
                                               !.outcome = "error"]
                         ELSE calls[c]]
    /\ UNCHANGED <<nH, nCalls, loginCall>>
    /\ UNCHANGED <<mode, refreshSecretSet, now, nJti, rows, mem, dbq,
                   revokeReturned, resp, nReq, issued, rotations>>
    /\ UNCHANGED harnessVars

\* auth.login(): apiRequest("POST", "/api/auth/login", credentials), sent
\* from the login page and handled by the server
ClientLoginSend(e, p) ==
    /\ loginCall.pc = "idle"
    /\ ls.token = NoToken      \* the login page is shown to a logged-out user
    /\ Login(e, p, -1)
    /\ loginCall' = [pc |-> "server", email |-> e, password |-> p,
                     sreq |-> NextSlot]
    /\ UNCHANGED <<ls, jar, refreshInFlight, nH, handles, nCalls, calls,
                   redirecting>>
    /\ UNCHANGED harnessVars

ClientLoginDeliver ==
    /\ loginCall.pc = "server"
    /\ LET r == reqs[loginCall.sreq]
       IN  /\ jar' = IF r.setCookie # NoToken THEN r.setCookie ELSE jar
           /\ ls' = IF r.status = 200
                    THEN [token |-> r.access, user |-> r.user,
                          exp |-> Sec(now) + ACCESS_TOKEN_TTL_SECONDS]
                    ELSE ls
    /\ loginCall' = NoLogin
    /\ reqs' = Drop(loginCall.sreq)
    /\ UNCHANGED <<refreshInFlight, nH, handles, nCalls, calls, redirecting>>
    /\ UNCHANGED <<mode, refreshSecretSet, now, nJti, rows, mem, dbq,
                   revokeReturned, resp, nReq, issued, rotations>>
    /\ UNCHANGED harnessVars

\* the user presses the logout button (Layout.tsx): auth.logout()
ClientLogout ==
    /\ ls # NoLs
    /\ SetClient(logout(Client))
    /\ UNCHANGED <<nCalls, calls, loginCall>>
    /\ UNCHANGED <<serverVars, harnessVars>>

\* the navigation to /login replaces the page: the module state is new,
\* the fetches of the old page are aborted and their continuations dropped
PageReload ==
    /\ redirecting
    /\ redirecting' = FALSE
    /\ refreshInFlight' = 0
    /\ handles' = [h \in HandleIds |->
          IF handles[h].st \in {"sent", "server"}
          THEN [handles[h] EXCEPT !.st = "aborted", !.cookie = NoToken,
                                  !.sreq = 0]
          ELSE handles[h]]
    /\ calls' = [c \in CallIds |->
          IF calls[c].pc # "done"
          THEN [calls[c] EXCEPT !.pc = "done", !.tok = NoToken,
                                !.outcome = "aborted"]
          ELSE calls[c]]
    /\ loginCall' = NoLogin
    /\ reqs' = [i \in {k \in Slots : reqs[k].pc # "done"} |->
                   [reqs[i] EXCEPT !.owner = 0]]
    /\ UNCHANGED <<ls, jar, nH, nCalls>>
    /\ UNCHANGED <<mode, refreshSecretSet, now, nJti, rows, mem, dbq,
                   revokeReturned, resp, nReq, issued, rotations>>
    /\ UNCHANGED harnessVars

CallDeliverStep == \E c \in CallIds : CallDeliver(c)
RefreshArriveStep == \E h \in HandleIds : RefreshArrive(h)
RefreshSettleStep == \E h \in HandleIds : RefreshSettle(h)
ClientLoginSendStep == ClientLoginSend("admin@salon.ru", "admin123")

\* the client specification advances the clock by whole seconds
ClientTick ==
    /\ now + MsPerSec <= MaxClientTime
    /\ now' = now + MsPerSec
    /\ UNCHANGED <<mode, refreshSecretSet, nJti, rows, mem, dbq,
                   revokeReturned, reqs, resp, nReq, issued, rotations>>
    /\ UNCHANGED otherVars

\* the page talks to a server started without DATABASE_URL
InitClient ==
    /\ ServerInit
    /\ mode = "mem"
    /\ refreshSecretSet = FALSE
    /\ HarnessIdle
    /\ ClientIdle

NextClient ==
    \/ ClientLoginSendStep
    \/ ClientLoginDeliver
    \/ ClientLogout
    \/ PageReload
    \/ CallStart
    \/ CallDeliverStep
    \/ TimerFire
    \/ RefreshArriveStep
    \/ RefreshSettleStep
    \/ ClientTick

SpecClient == InitClient /\ [][NextClient]_vars

\* =================================================================
\* Claims
\* =================================================================

\* C1 (as claimed): for every refresh token at most one refresh presenting
\* it succeeds, and a refresh that arrives after one presenting the same
\* token has answered 200 is answered 403.
C1_ReplayDetected ==
    /\ \A x, y \in rotations : x.old = y.old => x = y
    /\ (resp.kind = "refresh" /\ resp.replay) => resp.status = 403

\* C2 (as claimed): of the refresh requests that present the same valid
\* token and are handled concurrently (each arrived before any of them was
\* answered), at most one succeeds and at most one new jti results.
C2_RotationAtomic ==
    \A x, y \in rotations :
        (x.old = y.old /\ ~x.replay /\ ~y.replay) => x.new = y.new

\* C3 (as claimed): once a logout carrying a cookie whose jti was valid has
\* been answered, that jti is not valid in the allow-list any more.
C3_LogoutRevokes ==
    (resp.kind = "logout" /\ resp.wasValid)
        => ~StoreIsValid(rows, mem, resp.cookie.jti, now)

\* C4 (as claimed): in the state in which a login has just answered 200,
\* the jti of the cookie it set is valid in the store (both variants), and
\* the access token carries the id, email and role of the stored user.
C4_LoginPersists ==
    [][(nReq' = nReq + 1 /\ nJti' = nJti + 1 /\ resp'.kind = "login")
          => /\ StoreIsValid(rows', mem', resp'.setCookie.jti, now')
             /\ \E u \in UserIds :
                   /\ resp'.user = u
                   /\ resp'.access.id = UserTable[u].id
                   /\ resp'.access.email = UserTable[u].email
                   /\ resp'.access.role = UserTable[u].role]_vars

\* C5 (as claimed): with the durable store, no state has a refresh that
\* answered 200 while isValid of the jti it presented can still be true.
C5_RevokeCommitted ==
    (mode = "db" /\ resp.kind = "refresh" /\ resp.status = 200)
        => ~DbIsValid(rows, resp.cookie.jti, now)

\* C6: at most one call of /api/auth/refresh of the page is in flight and
\* it is the one refreshInFlight names; a request that sees 401/403 while
\* a refresh is pending awaits that handle and starts no call; all
\* waiters of a handle get the handle's outcome, the same token or the
\* same failure.
InFlight == {h \in HandleIds : handles[h].st \in {"sent", "server"}}

C6_Inv ==
    /\ Cardinality(InFlight) <= 1
    /\ InFlight \subseteq {refreshInFlight}
    /\ \A c \in CallIds :
          calls[c].pc = "await" => calls[c].h \in InFlight
    /\ \A c \in CallIds :
          calls[c].rres # "" =>
              /\ handles[calls[c].h].st = calls[c].rres
              /\ calls[c].got = (IF calls[c].rres = "ok"
                                 THEN handles[calls[c].h].token ELSE NoToken)
    /\ \A c, d \in CallIds :
          (calls[c].h = calls[d].h /\ calls[c].rres # "" /\ calls[d].rres # "")
              => (calls[c].rres = calls[d].rres /\ calls[c].got = calls[d].got)

C6_Attach ==
    \A c \in CallIds :
        (calls[c].pc = "fetch1" /\ calls'[c].pc = "await"
         /\ refreshInFlight # 0)
            => (nH' = nH /\ calls'[c].h = refreshInFlight)

C6_SingleFlight == [](C6_Inv) /\ [][C6_Attach]_vars

\* two requests awaited the same refresh and were given the same token
C6_Witness ==
    \E c, d \in CallIds :
        /\ c # d
        /\ calls[c].h = calls[d].h
        /\ calls[c].rres = "ok" /\ calls[d].rres = "ok"
        /\ calls[c].got # NoToken

\* C7 (as claimed): requests sent concurrently with the same access token
\* that are all answered 401/403 cause one refresh call in total: they
\* all await the same doRefresh() call.
C7_ExactlyOneRefresh ==
    \A d \in CallIds : \A c \in calls[d].with :
        (calls[c].h # 0 /\ calls[d].h # 0) => calls[c].h = calls[d].h

\* C8 (as claimed): isValid(jti) is true iff jti was added, was not
\* revoked, and the time of the call is strictly before its expiry time,
\* in both stores.
C8_IsValidIff ==
    obs.jti # 0 =>
        LET expect == obs.added /\ ~obs.revoked /\ obs.at < obs.exp
        IN  obs.db = expect /\ obs.mem = expect

\* C9 (as claimed): on the same calls and the same clock, every isValid
\* returns the same boolean in the durable and in the memory store.
C9_StoresEquivalent == obs.jti # 0 => obs.db = obs.mem

\* C10: once revoke(jti) has returned, isValid(jti) is false at every
\* time, and every isValid call made after that return answers false.
C10_RevokeVisible ==
    /\ \A j \in revokeReturned : \A t \in 0..MaxTime :
          ~StoreIsValid(rows, mem, j, t)
    /\ \A i \in Slots :
          (reqs[i].revBefore /\ reqs[i].pc \in {"resume", "done"})
              => ~reqs[i].valid
    /\ resp.revBefore => (~resp.valid /\ resp.status # 200)

\* the durable store answered a refresh whose jti had been revoked before
C10_Witness ==
    /\ mode = "db"
    /\ resp.kind = "refresh"
    /\ resp.revBefore
    /\ resp.cookie.jti \in revokeReturned

\* C11 (as claimed): revoke(jti) is idempotent and total: a revoke of a
\* jti that is already revoked, or that was never added, leaves both
\* stores exactly as they were.
C11_RevokeIdempotent ==
    [][\A j \in Jtis :
          (StRevoke(j) /\ (j \in hRevoked \/ j \notin DOMAIN hAdded))
              => (rows' = rows /\ mem' = mem)]_vars

\* a step in which POST /api/auth/refresh sends its response (resp'), and
\* the time at which that request was received
RefreshAnswered ==
    \/ nReq' = nReq + 1 /\ resp'.kind = "refresh" /\ DOMAIN reqs' = DOMAIN reqs
    \/ nReq' = nReq /\ resp'.kind = "refresh"
       /\ \E i \in Slots : reqs[i].pc = "resume" /\ i \notin DOMAIN reqs'
RefreshReceivedAt == IF nReq' = nReq + 1 THEN now ELSE resp'.qAt

\* C12: a refresh answers 401 exactly when no cookie is present, 403 when
\* the token has a bad signature, is expired, carries no jti, or its jti is
\* not valid in the store; a failed refresh leaves the allow-list as it was
\* and sends neither a cookie nor an access token.
C12_RefreshFailure ==
    [][RefreshAnswered =>
        LET r == resp'
            c == r.cookie
        IN  /\ r.status \in {200, 401, 403}
            /\ (c = NoToken) <=> (r.status = 401)
            /\ (c # NoToken /\ c.key # REFRESH_SECRET) => r.status = 403
            /\ (c # NoToken /\ Sec(RefreshReceivedAt) >= c.exp)
                  => r.status = 403
            /\ (c # NoToken /\ c.jti = 0) => r.status = 403
            /\ (c # NoToken /\ mode = "mem"
                /\ ~MemIsValidResult(mem, c.jti, now)) => r.status = 403
            /\ (c # NoToken /\ mode = "db" /\ ~r.valid) => r.status = 403
            /\ r.status # 200 =>
                  /\ rows' = rows /\ mem' = mem /\ dbq' = dbq
                  /\ nJti' = nJti /\ issued' = issued
                  /\ r.setCookie = NoToken /\ r.access = NoToken
                  /\ ~r.cleared]_vars

\* a refresh was refused although its token verifies: the jti is not valid
C12_Witness ==
    /\ resp.kind = "refresh"
    /\ resp.status = 403
    /\ resp.cookie.key = REFRESH_SECRET
    /\ resp.cookie.jti # 0
    /\ Sec(now) < resp.cookie.exp

\* C13 (as claimed): a refresh that presents the newest cookie of its
\* lineage (a refresh token the server set, not yet rotated, not expired,
\* no other request with it in progress) succeeds, and a refresh that
\* presents a cookie rotated before it arrived is answered 403.
C13_LineageUsable ==
    [][RefreshAnswered =>
        LET r == resp'
            c == r.cookie
        IN  /\ (/\ c \in issued /\ c.jti # 0
                /\ ~Rotated(c.jti)
                /\ Sec(now) < c.exp
                /\ \A k \in DOMAIN reqs' : reqs'[k].cookie # c)
                  => r.status = 200
            /\ r.replay => r.status = 403]_vars

\* C14: POST /api/auth/logout answers 204 and clears the refresh cookie
\* whatever the cookie holds, and sets no new cookie or token.
C14_LogoutAlways204 ==
    resp.kind = "logout" =>
        /\ resp.status = 204
        /\ resp.cleared
        /\ resp.setCookie = NoToken
        /\ resp.access = NoToken

\* a logout was answered whose cookie does not verify
C14_Witness ==
    /\ resp.kind = "logout"
    /\ resp.cookie # NoToken
    /\ ~verifyRefreshToken(resp.cookie, now)
    /\ resp.status = 204

\* C15: a call of authenticatedApiRequest only moves forward through
\* first fetch, await of one refresh, one retry, end: it sends at most
\* twice and awaits at most one refresh; a refused retry ends the call
\* without a further refresh; when the awaited refresh fails, the same
\* step clears token, profile and expiry, starts the redirect to /login
\* and ends the call with an error.
C15_Step ==
    \A c \in CallIds :
        LET a == calls[c]
            b == calls'[c]
        IN  /\ a.pc = "done" => b = a
            /\ a.pc = "fetch1" => b.pc \in {"fetch1", "await", "done"}
            /\ a.pc = "await" => b.pc \in {"await", "fetch2", "done"}
            /\ a.pc = "fetch2" => b.pc \in {"fetch2", "done"}
            /\ a.h # 0 => b.h = a.h
            /\ (a.pc = "fetch2" /\ b.pc # "fetch2") => nH' = nH
            /\ (a.pc = "await" /\ b.rres = "fail")
                  => /\ ls' = NoLs
                     /\ redirecting'
                     /\ b.pc = "done"
                     /\ b.outcome = "error"
            /\ (a.pc = "await" /\ b.rres = "ok")
                  => (b.pc = "fetch2" /\ b.tok = b.got)

C15_RetryOnce == [][C15_Step]_vars

\* a call whose refresh failed has ended with an error, the client is
\* logged out and on its way to the login page
C15_Witness ==
    \E c \in CallIds :
        /\ calls[c].rres = "fail"
        /\ calls[c].pc = "done"
        /\ calls[c].outcome = "error"
        /\ ls = NoLs
        /\ redirecting

\* C16 (as claimed): whenever a refresh of the client fails, however it
\* was started, the client is logged out in that step: it holds no
\* access token afterwards.
C16_FailedRefreshLogsOut ==
    [][\A h \in HandleIds :
          (handles[h].st \in {"sent", "server"} /\ handles'[h].st = "fail")
              => ls'.token = NoToken]_vars

\* C17: refreshInFlight is set exactly while a refresh is in flight: it is
\* null once the refresh has settled, with a token or with a failure; a
\* request that needs a refresh while it is null starts a new call of
\* /api/auth/refresh and awaits that one.
C17_Inv ==
    /\ refreshInFlight # 0 => refreshInFlight \in InFlight
    /\ InFlight = {} => refreshInFlight = 0

C17_NewCall ==
    \A c \in CallIds :
        (calls[c].pc = "fetch1" /\ calls'[c].pc = "await"
         /\ refreshInFlight = 0)
            => /\ nH' = nH + 1
               /\ calls'[c].h = nH + 1
               /\ refreshInFlight' = nH + 1
               /\ handles'[nH + 1].st = "sent"

C17_HandleCleared == [](C17_Inv) /\ [][C17_NewCall]_vars

\* after a refresh that failed, a request has started a new one
C17_Witness ==
    \E h \in HandleIds, c \in CallIds :
        /\ handles[h].st = "fail"
        /\ calls[c].h > h
        /\ refreshInFlight = calls[c].h

\* a step in which a protected endpoint sends its response (resp')
ApiAnswered ==
    nReq' = nReq + 1 /\ resp'.kind = "api" /\ DOMAIN reqs' = DOMAIN reqs

\* C18: a protected endpoint answers 401 exactly when the request carries
\* no bearer token and 403 when the token is signed with another key, is
\* malformed or is expired; its handler runs, for the user of the token,
\* exactly when the answer is neither.
C18_ProtectedGate ==
    [][ApiAnswered =>
        LET r == resp'
            t == r.bearer
        IN  /\ r.status \in {200, 401, 403}
            /\ (t = NoToken) <=> (r.status = 401)
            /\ (t # NoToken /\ t.key # JWT_SECRET) => r.status = 403
            /\ (t # NoToken /\ Sec(now) >= t.exp) => r.status = 403
            /\ (r.user # 0) <=> (r.status = 200)
            /\ r.status = 200 =>
                  /\ t.key = JWT_SECRET
                  /\ Sec(now) < t.exp
                  /\ r.user = t.id]_vars

\* an access token the server issued was refused after it had expired
C18_Witness ==
    /\ resp.kind = "api"
    /\ resp.status = 403
    /\ resp.bearer \in issued
    /\ resp.bearer.jti = 0
    /\ resp.bearer.key = JWT_SECRET

\* C19: a protected request leaves the allow-list as it is, and an access
\* token the server issued is accepted until its own expiry whatever the
\* store holds, also after the refresh token issued with it was rotated
\* and revoked or a logout was handled.
C19_AccessIgnoresStore ==
    [][ApiAnswered =>
        LET r == resp'
            t == r.bearer
        IN  /\ rows' = rows /\ mem' = mem /\ dbq' = dbq
            /\ revokeReturned' = revokeReturned
            /\ (t \in issued /\ t.jti = 0 /\ Sec(now) < t.exp)
                  => r.status = 200]_vars

\* an access token was accepted by a request that arrived after the
\* session's refresh token had been rotated and its revocation stored
C19_Witness ==
    /\ resp.kind = "api"
    /\ resp.status = 200
    /\ resp.bearer.jti = 0
    /\ resp.afterRevoke
    /\ nJti = 2

\* credentials that match no stored user
BadCredentials(e, p) ==
    ~\E u \in UserIds : UserTable[u].email = e /\ UserTable[u].password = p

\* C20: a login with an unknown email and a login with a wrong password
\* get the same response, 401 "Invalid credentials" with no access token
\* and no cookie, and leave the allow-list and the issued tokens as they
\* were.
C20_FailedLoginUniform ==
    [][\A e \in Emails, p \in Passwords :
          (Login(e, p, 0) /\ BadCredentials(e, p))
              => /\ resp'.kind = "login"
                 /\ resp'.status = 401
                 /\ resp'.message = "Invalid credentials"
                 /\ resp'.access = NoToken
                 /\ resp'.setCookie = NoToken
                 /\ resp'.user = 0
                 /\ ~resp'.cleared
                 /\ rows' = rows /\ mem' = mem /\ dbq' = dbq
                 /\ nJti' = nJti /\ issued' = issued]_vars

\* a login was refused after another login had opened a session
C20_Witness ==
    /\ resp.kind = "login"
    /\ resp.status = 401
    /\ nJti > 0

\* C21: a token signed for a claim set and verified before its exp gives
\* back the id, email and role of that claim set, and for a refresh token
\* also the jti that generateRefreshToken returned.
C21_RoundTrip ==
    (tk.checked /\ Sec(tk.checkedAt) < tk.token.exp) =>
        /\ tk.ok
        /\ tk.payload.id = tk.user.id
        /\ tk.payload.email = tk.user.email
        /\ tk.payload.role = tk.user.role
        /\ tk.kind = "refresh" => tk.jti # 0 /\ tk.payload.jti = tk.jti

C21_Witness ==
    /\ tk.checked /\ tk.ok
    /\ tk.kind = "refresh"
    /\ tk.payload = [id |-> 2, email |-> "nobody@salon.ru",
                     role |-> "master", jti |-> tk.jti]
    /\ tk.checkedAt > tk.at

TtlOf(kind) ==
    IF kind = "access" THEN ACCESS_TOKEN_TTL_SECONDS
    ELSE REFRESH_TOKEN_TTL_SECONDS

PastTtl(t) == t > tk.at + TtlOf(tk.kind) * MsPerSec

LogoutCalled == ClientLogout \/ (~redirecting /\ redirecting')

\* C23: in the state right after auth.logout() the access token, the
\* cached profile and the expiry epoch are all absent from localStorage
\* and isAuthenticated() is false.
C23_LogoutClears ==
    [][LogoutCalled =>
          /\ ls'.token = NoToken
          /\ ls'.user = 0
          /\ ls'.exp = 0
          /\ ~isAuthenticated([ls |-> ls'])]_vars

C23_Witness ==
    /\ redirecting
    /\ ~isAuthenticated(Client)
    /\ ls = NoLs
    /\ jar # NoToken
    /\ nCalls = 0 /\ nH = 0

\* C24: a protected endpoint never answers 200 to a request whose bearer
\* token is a refresh token (a token signed with a jti for the cookie),
\* whether or not REFRESH_TOKEN_SECRET is set.
C24_RefreshTokenNotBearer ==
    (resp.kind = "api" /\ resp.bearer.jti # 0) => resp.status # 200

\* C25: the access token and the refresh token of a successful refresh
\* carry the email and role the user's stored row has when the refresh is
\* handled, also when the row changed after the presented token was signed.
C25_RotationCarriesCurrentClaims ==
    [][(RefreshAnswered /\ resp'.status = 200) =>
          /\ resp'.access.email = tk.stored.email
          /\ resp'.access.role = tk.stored.role
          /\ resp'.setCookie.email = tk.stored.email
          /\ resp'.setCookie.role = tk.stored.role]_vars

\* the newest jti of the lineage that jti j belongs to
RECURSIVE LineageHead(_)
LineageHead(j) ==
    IF Rotated(j)
    THEN LineageHead((CHOOSE x \in rotations : x.old = j).new)
    ELSE j

\* C26: a refresh call of the page is never refused as a replay (its
\* cookie's jti already rotated) while the newest refresh token of its
\* session is valid in the store.
C26_NoSpuriousReplay ==
    \A i \in Slots :
        (/\ reqs[i].kind = "refresh" /\ reqs[i].owner > 0
         /\ reqs[i].pc = "done"
         /\ reqs[i].replay
         /\ MemIsValidResult(mem, LineageHead(reqs[i].cookie.jti), now))
        => reqs[i].status = 200

\* jti j was given to add() of the store
Added(j) == j \in 1..nJti

\* C27: once isValid answers false for a jti that was added, it answers
\* false in every later state, whatever login, refresh, logout or clock
\* step is taken.
C27_InvalidIsTerminal ==
    [][\A j \in 1..MaxJti :
          (Added(j) /\ ~MemIsValidResult(mem, j, now))
              => ~MemIsValidResult(mem', j, now')]_vars

C27_Witness ==
    \E j, k \in 1..MaxJti :
        /\ Added(j) /\ Added(k)
        /\ Rotated(j) /\ ~MemIsValidResult(mem, j, now)
        /\ ~Rotated(k) /\ k \in mem.valid /\ now > mem.exp[k]
        /\ ~MemIsValidResult(mem, k, now)

\* the stored expiry is unknown or at most m seconds remain
RefreshDue(m) == ls.exp = 0 \/ ls.exp - Sec(now) <= m

\* what a call with margin m does to the client: it starts a refresh with
\* the cookie of the jar, joins the pending one, or changes nothing
C28_Call(m) ==
    LET C == refreshIfNeeded(Client, m, now)
    IN  IF RefreshDue(m)
        THEN IF refreshInFlight = 0
             THEN /\ C.nH = nH + 1 /\ C.rif = nH + 1
                  /\ C.handles = handles @@ (nH + 1 :> NewHandle(jar))
                  /\ C.ls = ls /\ C.jar = jar
                  /\ C.redirecting = redirecting
             ELSE C = Client
        ELSE C = Client

\* C28: refreshIfNeeded(minSeconds) starts or joins a refresh exactly when
\* the stored expiry is unknown or the remaining seconds are at most
\* minSeconds, and otherwise leaves the client unchanged; the timer step
\* applies it with its own margin and sends nothing to the server.
C28_RefreshIfNeeded ==
    [][/\ \A m \in 0..ACCESS_TOKEN_TTL_SECONDS : C28_Call(m)
       /\ TimerFire =>
             /\ RefreshDue(TimerMinSeconds) /\ refreshInFlight = 0
             /\ nH' = nH + 1 /\ refreshInFlight' = nH + 1
             /\ handles'[nH + 1].st = "sent"
             /\ handles'[nH + 1].cookie = jar
             /\ UNCHANGED <<ls, jar, redirecting, nCalls, calls, loginCall>>
             /\ UNCHANGED serverVars]_vars

C28_Witness ==
    /\ ls.exp # 0 /\ ls.exp - Sec(now) <= TimerMinSeconds
    /\ ls.token # NoToken
    /\ nCalls = 0
    /\ refreshInFlight # 0
    /\ handles[refreshInFlight].st = "sent"

\* C29: after auth.logout() the client holds no access token until the
\* next successful auth.login(): a step that stores a token in an empty
\* localStorage is the delivery of a login response.
C29_StaysLoggedOut ==
    [][(ls.token = NoToken /\ ls'.token # NoToken) =>
          (loginCall.pc = "server" /\ loginCall' = NoLogin)]_vars

\* the jtis minted by a login: those no rotation produced
LoginJtis == {j \in 1..nJti : \A x \in rotations : x.new # j}

\* the jtis of the lineage whose first jti is j
RECURSIVE Lineage(_)
Lineage(j) ==
    IF Rotated(j)
    THEN {j} \cup Lineage((CHOOSE x \in rotations : x.old = j).new)
    ELSE {j}

ValidJtis == {j \in 1..nJti : StoreIsValid(rows, mem, j, now)}

\* the expiry given to add() for jti j has passed
StoreExpired(j) ==
    IF mode = "mem"
    THEN j \notin DOMAIN mem.exp \/ now > mem.exp[j]
    ELSE \/ \E q \in dbq : q.op = "add" /\ q.jti = j /\ ~(q.expiresAt > now)
         \/ \E r \in rows : r.jti = j /\ ~(r.expiresAt > now)

\* C30: when no request is being handled, every lineage started by a
\* login whose newest jti has not expired has exactly that jti valid in
\* the store, an expired lineage has none, and so the valid jtis are as
\* many as the unexpired lineages.
C30_OneValidPerLineage ==
    reqs = <<>> =>
        /\ \A j \in LoginJtis :
              Lineage(j) \cap ValidJtis =
                  IF StoreExpired(LineageHead(j)) THEN {}
                  ELSE {LineageHead(j)}
        /\ Cardinality(ValidJtis) =
              Cardinality({j \in LoginJtis : ~StoreExpired(LineageHead(j))})

====
